---- MODULE Spec2Model ----
(***************************************************************************)
(* Model of the two cipher programs of the repository:                     *)
(*   src/lab3/main.py  GOST 28147-89 style 32-round Feistel cipher over    *)
(*                     files, with PKCS7 padding, key loading and base64   *)
(*   src/lab2/main.py  16-round teaching Feistel cipher over texts         *)
(*                                                                         *)
(* Python integers are unbounded, so an integer the code shifts, masks or  *)
(* xors is its sequence of hexadecimal digits, least significant first,    *)
(* without leading zeros (0 is the empty sequence).  A mask in the code is *)
(* what keeps a value in its width; nothing in the representation does.    *)
(* Bytes, lengths and indices are plain naturals.                          *)
(***************************************************************************)
EXTENDS Integers, Sequences, FiniteSets, TLC

\* ------------------------------------------------------------------------
\* Python int arithmetic on digit sequences
\* ------------------------------------------------------------------------

MaxOf(a, b) == IF a >= b THEN a ELSE b

\* the sequence f(1), ..., f(n) as a tuple of values
Tup(f, n) == SubSeq(f, 1, n)

\* e, with v computed first: the code computes each value before the next
\* statement uses it, where an operator argument is computed when first used
With(v, e) == IF v = v THEN e ELSE e

\* the concatenation of the sequences seqs[lo + 1], ..., seqs[hi]
RECURSIVE Flatten(_, _, _)
Flatten(seqs, lo, hi) ==
    IF hi <= lo THEN <<>>
    ELSE IF hi = lo + 1 THEN seqs[hi]
    ELSE Flatten(seqs, lo, (lo + hi) \div 2) \o Flatten(seqs, (lo + hi) \div 2, hi)

\* the digit-wise ^, & and | as tables, indexed by digit + 1
XOR4 ==
    Tup([a \in 1..16 |-> Tup([b \in 1..16 |->
        ((((a - 1) % 2) + ((b - 1) % 2)) % 2)
        + 2 * (((((a - 1) \div 2) % 2) + (((b - 1) \div 2) % 2)) % 2)
        + 4 * (((((a - 1) \div 4) % 2) + (((b - 1) \div 4) % 2)) % 2)
        + 8 * ((((a - 1) \div 8) + ((b - 1) \div 8)) % 2)], 16)], 16)

AND4 ==
    Tup([a \in 1..16 |-> Tup([b \in 1..16 |->
        (((a - 1) % 2) * ((b - 1) % 2))
        + 2 * ((((a - 1) \div 2) % 2) * (((b - 1) \div 2) % 2))
        + 4 * ((((a - 1) \div 4) % 2) * (((b - 1) \div 4) % 2))
        + 8 * (((a - 1) \div 8) * ((b - 1) \div 8))], 16)], 16)

\* a | b = (a ^ b) + (a & b)
OR4 ==
    Tup([a \in 1..16 |-> Tup([b \in 1..16 |-> XOR4[a][b] + AND4[a][b]], 16)], 16)

\* the position of the most significant digit of a that is not 0; 0 if none
Top(a) ==
    IF \A i \in 1..Len(a) : a[i] = 0 THEN 0
    ELSE CHOOSE i \in 1..Len(a) : a[i] # 0 /\ \A j \in (i + 1)..Len(a) : a[j] = 0

\* a without its leading zeros
Norm(a) == SubSeq(a, 1, Top(a))

\* digit i (from 1) of a; 0 beyond its digits
DigAt(a, i) == IF 1 <= i /\ i <= Len(a) THEN a[i] ELSE 0

\* the n digits table[digit of a][digit of b]
Digitwise(table, a, b, n) ==
    Norm(Tup([i \in 1..n |-> table[DigAt(a, i) + 1][DigAt(b, i) + 1]], n))

BitXor(a, b) ==
    IF Len(a) >= Len(b) THEN Digitwise(XOR4, a, b, Len(a))
    ELSE Digitwise(XOR4, a, b, Len(b))

BitOr(a, b) ==
    IF Len(a) >= Len(b) THEN Digitwise(OR4, a, b, Len(a))
    ELSE Digitwise(OR4, a, b, Len(b))

BitAnd(a, b) ==
    IF Len(a) >= Len(b) THEN Digitwise(AND4, a, b, Len(a))
    ELSE Digitwise(AND4, a, b, Len(b))

\* a << n
Shl(a, n) ==
    IF a = <<>> THEN <<>>
    ELSE LET q == n \div 4
             p == 2 ^ (n % 4)
             m == Len(a) + q + 1
         IN  Norm(Tup([k \in 1..m |->
                 ((DigAt(a, k - q) * p) % 16) + ((DigAt(a, k - q - 1) * p) \div 16)], m))

\* a >> n
Shr(a, n) ==
    IF a = <<>> THEN <<>>
    ELSE LET q == n \div 4
             r == n % 4
             m == MaxOf(Len(a) - q, 0)
         IN  Norm(Tup([k \in 1..m |->
                 (DigAt(a, k + q) \div (2 ^ r))
                 + ((DigAt(a, k + q + 1) * (2 ^ (4 - r))) % 16)], m))

\* the carry into digit i of a + b: some lower digit position overflows, and
\* every position between it and i carries a carry on
CarryInto(a, b, i) ==
    IF \E j \in 1..(i - 1) :
           /\ DigAt(a, j) + DigAt(b, j) >= 16
           /\ \A k \in (j + 1)..(i - 1) : DigAt(a, k) + DigAt(b, k) = 15
    THEN 1 ELSE 0

\* the n lowest digits of a + b
AddDigits(a, b, n) ==
    Norm(Tup([i \in 1..n |-> (DigAt(a, i) + DigAt(b, i) + CarryInto(a, b, i)) % 16], n))

Add(a, b) ==
    IF Len(a) >= Len(b) THEN AddDigits(a, b, Len(a) + 1)
    ELSE AddDigits(a, b, Len(b) + 1)

\* i * a for a natural i
RECURSIVE Mul(_, _)
Mul(i, a) ==
    IF i = 0 THEN <<>>
    ELSE Add(IF i % 2 = 1 THEN a ELSE <<>>, Shl(Mul(i \div 2, a), 1))

\* a hexadecimal literal, digits most significant first
Hex(ds) == Norm(Tup([i \in 1..Len(ds) |-> ds[Len(ds) + 1 - i]], Len(ds)))

\* the number of bits of a (Python's int.bit_length)
BitLength(a) ==
    IF a = <<>> THEN 0
    ELSE LET top == a[Len(a)]
         IN  4 * (Len(a) - 1)
             + (IF top >= 8 THEN 4 ELSE IF top >= 4 THEN 3 ELSE IF top >= 2 THEN 2 ELSE 1)

\* 0xFFFFFFFF, 0xFFFFFFFFFFFFFFFF
MASK32 == Tup([i \in 1..8 |-> 15], 8)
MASK64 == Tup([i \in 1..16 |-> 15], 16)

\* ------------------------------------------------------------------------
\* Results, byte strings, struct.pack / struct.unpack
\* ------------------------------------------------------------------------

\* what a call returns: its value, or the exception it raises
Ok(v)  == [err |-> "", val |-> v]
Err(e) == [err |-> e, val |-> <<>>]

STRUCT_ERROR  == "struct.error"
INDEX_ERROR   == "IndexError"
PADDING_ERROR == "ValueError: bad padding"
KEY_ERROR     == "ValueError: key length"
BASE64_ERROR  == "binascii.Error"
ASCII_ERROR   == "ValueError: not ASCII text"
UNICODE_ERROR == "UnicodeDecodeError"
NOFILE_ERROR  == "FileNotFoundError"

\* n bytes of value c: bytes([c] * n)
Fill(n, c) == Tup([i \in 1..n |-> c], n)

\* Python slices s[i:j], s[-k:] and s[:-k] for naturals i, j, k
Slice(s, i, j) ==
    LET hi == IF j > Len(s) THEN Len(s) ELSE j
    IN  IF i >= hi THEN <<>> ELSE SubSeq(s, i + 1, hi)

SliceLast(s, k) == IF k = 0 THEN s ELSE Slice(s, MaxOf(Len(s) - k, 0), Len(s))

SliceButLast(s, k) == IF k = 0 THEN <<>> ELSE Slice(s, 0, MaxOf(Len(s) - k, 0))

\* the integer of a byte string, little endian / big endian
BytesLE(bs) ==
    Norm(Tup([i \in 1..(2 * Len(bs)) |->
                IF i % 2 = 1 THEN bs[(i + 1) \div 2] % 16 ELSE bs[i \div 2] \div 16],
             2 * Len(bs)))

Reverse(bs) == Tup([i \in 1..Len(bs) |-> bs[Len(bs) + 1 - i]], Len(bs))

BytesBE(bs) == BytesLE(Reverse(bs))

\* the n bytes of integer a, little endian / big endian (a < 256^n)
ToBytesLE(a, n) ==
    Tup([k \in 1..n |-> DigAt(a, 2 * k - 1) + 16 * DigAt(a, 2 * k)], n)

ToBytesBE(a, n) == Reverse(ToBytesLE(a, n))

\* struct.unpack('<II', block): two unsigned 32-bit words, or struct.error
\* when block is not exactly 8 bytes
unpack_II(block) ==
    IF Len(block) # 8 THEN Err(STRUCT_ERROR)
    ELSE Ok(<<BytesLE(SubSeq(block, 1, 4)), BytesLE(SubSeq(block, 5, 8))>>)

\* struct.pack('<II', a, b): struct.error when a word needs more than 32 bits
pack_II(a, b) ==
    IF BitLength(a) > 32 \/ BitLength(b) > 32 THEN Err(STRUCT_ERROR)
    ELSE Ok(ToBytesLE(a, 4) \o ToBytesLE(b, 4))

\* ------------------------------------------------------------------------
\* lab3: GOST block cipher
\* ------------------------------------------------------------------------

\* program constants
ROUNDS     == 32
BLOCK_SIZE == 8
KEY_BYTES  == 32

SBOX ==
    << <<4, 10, 9, 2, 13, 8, 0, 14, 6, 11, 1, 12, 7, 15, 5, 3>>,
       <<14, 11, 4, 12, 6, 13, 15, 10, 2, 3, 8, 1, 0, 7, 5, 9>>,
       <<5, 8, 1, 13, 10, 3, 4, 2, 14, 15, 12, 7, 6, 0, 9, 11>>,
       <<7, 13, 10, 1, 0, 8, 9, 15, 14, 4, 6, 11, 2, 5, 3, 12>>,
       <<12, 6, 15, 10, 2, 9, 1, 7, 4, 14, 0, 5, 11, 3, 8, 13>>,
       <<11, 3, 6, 8, 15, 0, 1, 12, 2, 5, 14, 7, 9, 10, 4, 13>>,
       <<8, 15, 2, 5, 12, 11, 7, 6, 0, 4, 14, 9, 10, 1, 13, 3>>,
       <<10, 2, 7, 1, 13, 8, 15, 9, 12, 0, 5, 11, 6, 14, 3, 4>> >>

\* the n digits of s with each of the lowest eight replaced by its image
SubstituteDigits(s, n) ==
    Norm(Tup([k \in 1..n |-> IF k <= 8 THEN SBOX[9 - k][DigAt(s, k) + 1] ELSE s[k]], n))

\* the inner loop "for j in range(8)": with sh = 28 - 4j, a multiple of 4,
\*   s = (s & ~(0xF << sh)) | (SBOX[j][(s >> sh) & 0xF] << sh)
\* replaces hex digit sh / 4 of s by its SBOX[j] image, and reads and writes
\* no other digit: after the loop digit d (from 0) of s, for d = 0..7, is
\* the SBOX[7 - d] image of what it was
Substitute(s) ==
    SubstituteDigits(s, MaxOf(Len(s), 8))

\* s = ((s << 11) | (s >> (32 - 11))) & 0xFFFFFFFF
RotateLeft11(s) == BitAnd(BitOr(Shl(s, 11), Shr(s, 32 - 11)), MASK32)

\* the body of one round: from n = (n1, n2) and round key k to the next pair
\*   s = (n1 + k) & 0xFFFFFFFF; substitute; rotate; n1, n2 = n2 ^ s, n1
gost_round(n, k) ==
    <<BitXor(n[2], RotateLeft11(Substitute(BitAnd(Add(n[1], k), MASK32)))), n[1]>>

\* "for i in range(32)": iterations lo .. hi - 1 in ascending order, each
\* with key[i % 8]: those of the first half of the range, then, from their
\* result, those of the second half
RECURSIVE gost_encrypt_rounds(_, _, _, _)
gost_encrypt_rounds(n, key, lo, hi) ==
    IF hi = lo + 1 THEN gost_round(n, key[(lo % 8) + 1])
    ELSE LET first == gost_encrypt_rounds(n, key, lo, (lo + hi) \div 2)
         IN  IF first = first
             THEN gost_encrypt_rounds(first, key, (lo + hi) \div 2, hi)
             ELSE first

\* "for i in range(31, -1, -1)": iterations hi - 1 .. lo in descending
\* order: those of the upper half of the range, then those of the lower half
RECURSIVE gost_decrypt_rounds(_, _, _, _)
gost_decrypt_rounds(n, key, lo, hi) ==
    IF hi = lo + 1 THEN gost_round(n, key[(lo % 8) + 1])
    ELSE LET first == gost_decrypt_rounds(n, key, (lo + hi) \div 2, hi)
         IN  IF first = first
             THEN gost_decrypt_rounds(first, key, lo, (lo + hi) \div 2)
             ELSE first

\* return struct.pack('<II', n2, n1)
pack_swapped(n) == pack_II(n[2], n[1])

\* u is struct.unpack('<II', block)
gost_encrypt_unpacked(u, key) ==
    IF u.err # "" THEN u ELSE pack_swapped(gost_encrypt_rounds(u.val, key, 0, ROUNDS))

gost_decrypt_unpacked(u, key) ==
    IF u.err # "" THEN u ELSE pack_swapped(gost_decrypt_rounds(u.val, key, 0, ROUNDS))

gost_encrypt_block(block, key) == gost_encrypt_unpacked(unpack_II(block), key)

\* a decryption that runs the rounds in the order of the encryption
gost_decrypt_block_forward(block, key) == gost_encrypt_block(block, key)

gost_decrypt_block(block, key) == gost_decrypt_unpacked(unpack_II(block), key)

\* ------------------------------------------------------------------------
\* lab3: padding and key loading
\* ------------------------------------------------------------------------

\* a padding that leaves a buffer of a multiple of 8 bytes as it is
pkcs7_pad_to_multiple(data) ==
    IF Len(data) % BLOCK_SIZE = 0 THEN data
    ELSE data \o Fill(BLOCK_SIZE - (Len(data) % BLOCK_SIZE),
                      BLOCK_SIZE - (Len(data) % BLOCK_SIZE))

pkcs7_pad(data) ==
    LET pad_len == BLOCK_SIZE - (Len(data) % BLOCK_SIZE)
    IN  data \o Fill(pad_len, pad_len)

\* data[-1] of an empty buffer raises IndexError; "or" short-circuits
pkcs7_unpad(data) ==
    IF data = <<>> THEN Err(INDEX_ERROR)
    ELSE LET pad_len == data[Len(data)]
         IN  IF \/ pad_len > Len(data)
                \/ \E i \in 1..Len(SliceLast(data, pad_len)) :
                        SliceLast(data, pad_len)[i] # pad_len
             THEN Err(PADDING_ERROR)
             ELSE Ok(SliceButLast(data, pad_len))

\* a file: whether it exists, and its bytes
NoFile     == [exists |-> FALSE, data |-> <<>>]
File(data) == [exists |-> TRUE, data |-> data]

\* struct.unpack('<8I', key_data)
unpack_8I(key_data) ==
    Tup([i \in 1..8 |-> BytesLE(SubSeq(key_data, 4 * i - 3, 4 * i))], 8)

\* a key loader that takes the first 32 bytes of a longer key file
load_key_prefix(key_file) ==
    IF ~key_file.exists THEN Err(NOFILE_ERROR)
    ELSE IF Len(key_file.data) < KEY_BYTES THEN Err(KEY_ERROR)
    ELSE Ok(unpack_8I(SubSeq(key_file.data, 1, KEY_BYTES)))

load_key(key_file) ==
    IF ~key_file.exists THEN Err(NOFILE_ERROR)
    ELSE IF Len(key_file.data) # KEY_BYTES THEN Err(KEY_ERROR)
    ELSE Ok(unpack_8I(key_file.data))

\* ------------------------------------------------------------------------
\* lab3: text detection and base64 (bytes.decode, base64.b64encode/b64decode)
\* ------------------------------------------------------------------------

IsCont(b) == 128 <= b /\ b <= 191

\* bytes.decode('utf-8'), strict.  The decoder's state: the position (from 0)
\* of the next byte to decode, the code points so far, and whether it met an
\* ill-formed or truncated sequence.  Utf8Step is what it does at byte i
Utf8Step(st, bs, i) ==
    IF st.bad \/ i # st.next THEN st
    ELSE LET b  == bs[i + 1]
             b1 == IF i + 2 <= Len(bs) THEN bs[i + 2] ELSE 0
             b2 == IF i + 3 <= Len(bs) THEN bs[i + 3] ELSE 0
             b3 == IF i + 4 <= Len(bs) THEN bs[i + 4] ELSE 0
         IN  IF b < 128 THEN [next |-> i + 1, out |-> Append(st.out, b), bad |-> FALSE]
             ELSE IF 194 <= b /\ b <= 223 /\ IsCont(b1)
             THEN [next |-> i + 2, bad |-> FALSE,
                   out |-> Append(st.out, (b - 192) * 64 + (b1 - 128))]
             ELSE IF /\ 224 <= b /\ b <= 239
                     /\ IsCont(b1) /\ IsCont(b2)
                     /\ (b = 224 => b1 >= 160)
                     /\ (b = 237 => b1 <= 159)
             THEN [next |-> i + 3, bad |-> FALSE,
                   out |-> Append(st.out, (b - 224) * 4096 + (b1 - 128) * 64 + (b2 - 128))]
             ELSE IF /\ 240 <= b /\ b <= 244
                     /\ IsCont(b1) /\ IsCont(b2) /\ IsCont(b3)
                     /\ (b = 240 => b1 >= 144)
                     /\ (b = 244 => b1 <= 143)
             THEN [next |-> i + 4, bad |-> FALSE,
                   out |-> Append(st.out, (b - 240) * 262144 + (b1 - 128) * 4096
                                          + (b2 - 128) * 64 + (b3 - 128))]
             ELSE [next |-> i, out |-> st.out, bad |-> TRUE]

\* the code points, or UnicodeDecodeError
Utf8Result(st) == IF st.bad THEN Err(UNICODE_ERROR) ELSE Ok(st.out)

\* the decoder over the bytes lo .. hi - 1: over the first half of them,
\* then, unless that failed, over the second half
RECURSIVE Utf8Steps(_, _, _, _)
Utf8Steps(st, bs, lo, hi) ==
    IF hi <= lo THEN st
    ELSE IF hi = lo + 1 THEN Utf8Step(st, bs, lo)
    ELSE LET first == Utf8Steps(st, bs, lo, (lo + hi) \div 2)
         IN  IF first.bad THEN first ELSE Utf8Steps(first, bs, (lo + hi) \div 2, hi)

Utf8Decode(bs) ==
    Utf8Result(Utf8Steps([next |-> 0, out |-> <<>>, bad |-> FALSE], bs, 0, Len(bs)))

\* the base64 alphabet: the character of a 6-bit value, the value of a
\* character (64 for a character outside the alphabet); "=" is 61
B64Char(v) ==
    IF v < 26 THEN 65 + v
    ELSE IF v < 52 THEN 97 + (v - 26)
    ELSE IF v < 62 THEN 48 + (v - 52)
    ELSE IF v = 62 THEN 43 ELSE 47

B64Value(c) ==
    IF 65 <= c /\ c <= 90 THEN c - 65
    ELSE IF 97 <= c /\ c <= 122 THEN c - 97 + 26
    ELSE IF 48 <= c /\ c <= 57 THEN c - 48 + 52
    ELSE IF c = 43 THEN 62
    ELSE IF c = 47 THEN 63
    ELSE 64

\* the four characters of a group of one to three bytes
B64Group(bs) ==
    LET n  == Len(bs)
        b1 == bs[1]
        b2 == IF n >= 2 THEN bs[2] ELSE 0
        b3 == IF n >= 3 THEN bs[3] ELSE 0
    IN  << B64Char(b1 \div 4),
           B64Char((b1 % 4) * 16 + (b2 \div 16)),
           IF n >= 2 THEN B64Char((b2 % 16) * 4 + (b3 \div 64)) ELSE 61,
           IF n >= 3 THEN B64Char(b3 % 64) ELSE 61 >>

B64Groups(bs, n) ==
    Flatten(Tup([g \in 1..n |-> B64Group(Slice(bs, 3 * g - 3, 3 * g))], n), 0, n)

b64encode(bs) == B64Groups(bs, (Len(bs) + 2) \div 3)

\* binascii.a2b_base64 without strict mode.  Its state: quad_pos data
\* characters of the current group are held in leftchar, pads "=" were seen
\* since the last data character, out is decoded, and done says that the
\* pad sequence that ends the input was met.  a2b_step is what it does at
\* character c: a character outside the alphabet is skipped, and enough "="
\* after two or three data characters end the input
a2b_state(quad_pos, leftchar, pads, out, done) ==
    [quad_pos |-> quad_pos, leftchar |-> leftchar, pads |-> pads, out |-> out,
     done |-> done]

a2b_step(st, c) ==
    IF st.done THEN st
    ELSE IF c = 61
    THEN IF st.quad_pos >= 2 /\ st.quad_pos + st.pads + 1 >= 4
         THEN a2b_state(st.quad_pos, st.leftchar, st.pads + 1, st.out, TRUE)
         ELSE a2b_state(st.quad_pos, st.leftchar,
                        IF st.quad_pos >= 2 THEN st.pads + 1 ELSE st.pads, st.out, FALSE)
    ELSE IF B64Value(c) >= 64 THEN st
    ELSE IF st.quad_pos = 0 THEN a2b_state(1, B64Value(c), 0, st.out, FALSE)
    ELSE IF st.quad_pos = 1
    THEN a2b_state(2, B64Value(c) % 16, 0,
                   Append(st.out, st.leftchar * 4 + (B64Value(c) \div 16)), FALSE)
    ELSE IF st.quad_pos = 2
    THEN a2b_state(3, B64Value(c) % 4, 0,
                   Append(st.out, st.leftchar * 16 + (B64Value(c) \div 4)), FALSE)
    ELSE a2b_state(0, 0, 0, Append(st.out, st.leftchar * 64 + B64Value(c)), FALSE)

\* the bytes, or binascii.Error for an input that ends inside a group
a2b_result(st) ==
    IF ~st.done /\ st.quad_pos # 0 THEN Err(BASE64_ERROR) ELSE Ok(st.out)

\* the decoder over the characters lo .. hi - 1: over the first half of
\* them, then, unless the input ended there, over the second half
RECURSIVE a2b_steps(_, _, _, _)
a2b_steps(st, cs, lo, hi) ==
    IF hi <= lo THEN st
    ELSE IF hi = lo + 1 THEN a2b_step(st, cs[hi])
    ELSE LET first == a2b_steps(st, cs, lo, (lo + hi) \div 2)
         IN  IF first.done THEN first ELSE a2b_steps(first, cs, (lo + hi) \div 2, hi)

a2b_base64(cs) ==
    a2b_result(a2b_steps(a2b_state(0, 0, 0, <<>>, FALSE), cs, 0, Len(cs)))

\* base64.b64decode(f.read()) of a file opened as text: a byte outside ASCII
\* either fails to decode or decodes to a character b64decode refuses
b64decode_text(data) ==
    IF \E i \in 1..Len(data) : data[i] >= 128 THEN Err(ASCII_ERROR)
    ELSE a2b_base64(data)

\* ------------------------------------------------------------------------
\* lab3: encrypt_file and decrypt_file (the later definitions, lines 120-176,
\* which replace those of lines 94-117 when the module is loaded)
\* ------------------------------------------------------------------------

\* data[i:i+8] for i in range(0, len(data), 8)
Chunks(data) ==
    LET n == (Len(data) + BLOCK_SIZE - 1) \div BLOCK_SIZE
    IN  Tup([k \in 1..n |-> Slice(data, BLOCK_SIZE * (k - 1), BLOCK_SIZE * k)], n)

\* b"".join(results): the bytes of the results, or the first exception
\* among them
Join(results) ==
    IF \E i \in 1..Len(results) : results[i].err # ""
    THEN results[CHOOSE i \in 1..Len(results) :
                     /\ results[i].err # ""
                     /\ \A j \in 1..(i - 1) : results[j].err = ""]
    ELSE Ok(Flatten(Tup([i \in 1..Len(results) |-> results[i].val], Len(results)),
                    0, Len(results)))

\* gost_encrypt_block(data[i:i+8], key) for i in range(0, len(data), 8)
EncryptChunks(chunks, key) ==
    Tup([k \in 1..Len(chunks) |-> gost_encrypt_block(chunks[k], key)], Len(chunks))

DecryptChunks(chunks, key) ==
    Tup([k \in 1..Len(chunks) |-> gost_decrypt_block(chunks[k], key)], Len(chunks))

\* what a run of encrypt_file or decrypt_file did: the exception that ended
\* it ("" when it ran to its end), the key load_key returned, the bytes it
\* read (decoded), the bytes it computed before unpadding, what it wrote
Run(err, key, data, computed, written) ==
    [err |-> err, key |-> key, data |-> data, computed |-> computed,
     written |-> written]

\* encrypt_file from "data = pkcs7_pad(data)" on; encrypted_data is the join
encrypt_padded(plain, key, data, encrypted_data) ==
    IF encrypted_data.err # "" THEN Run(encrypted_data.err, key, plain, <<>>, <<>>)
    ELSE Run("", key, plain, data, encrypted_data.val)

\* encrypt_file from the read of the input file on; key is load_key's result
encrypt_with(in_file, key) ==
    IF key.err # "" THEN Run(key.err, key, <<>>, <<>>, <<>>)
    ELSE IF ~in_file.exists THEN Run(NOFILE_ERROR, key, <<>>, <<>>, <<>>)
    ELSE encrypt_padded(in_file.data, key, pkcs7_pad(in_file.data),
             Join(EncryptChunks(Chunks(pkcs7_pad(in_file.data)), key.val)))

encrypt_file(in_file, key_file) == encrypt_with(in_file, load_key(key_file))

\* the bytes decrypt_file takes for the ciphertext: a file whose first 10
\* bytes decode as UTF-8 is read as base64 text, any other as binary
read_encrypted(in_file) ==
    LET first_bytes == Slice(in_file.data, 0, 10)
        is_base64   == Utf8Decode(first_bytes).err = ""
    IN  IF is_base64 THEN b64decode_text(in_file.data) ELSE Ok(in_file.data)

\* decrypt_file from "decrypted_data = pkcs7_unpad(decrypted_data)" on
decrypt_unpad(key, encrypted_data, decrypted_data) ==
    IF decrypted_data.err # "" THEN Run(decrypted_data.err, key, encrypted_data, <<>>, <<>>)
    ELSE LET unpadded == pkcs7_unpad(decrypted_data.val)
         IN  IF unpadded.err # ""
             THEN Run(unpadded.err, key, encrypted_data, decrypted_data.val, <<>>)
             ELSE Run("", key, encrypted_data, decrypted_data.val, unpadded.val)

\* decrypt_file from the decryption on; encrypted_data is what was read
decrypt_read(key, encrypted_data) ==
    IF encrypted_data.err # "" THEN Run(encrypted_data.err, key, <<>>, <<>>, <<>>)
    ELSE decrypt_unpad(key, encrypted_data.val,
             Join(DecryptChunks(Chunks(encrypted_data.val), key.val)))

\* decrypt_file from the read of the input file on; key is load_key's result
decrypt_with(in_file, key) ==
    IF key.err # "" THEN Run(key.err, key, <<>>, <<>>, <<>>)
    ELSE IF ~in_file.exists THEN Run(NOFILE_ERROR, key, <<>>, <<>>, <<>>)
    ELSE decrypt_read(key, read_encrypted(in_file))

decrypt_file(in_file, key_file) == decrypt_with(in_file, load_key(key_file))

\* ------------------------------------------------------------------------
\* lab2: Feistel block cipher
\* ------------------------------------------------------------------------

\* the defaults rounds=16 and block_size=8, and the constant of line 86
DEFAULT_ROUNDS     == 16
DEFAULT_BLOCK_SIZE == 8
ROUND_CONSTANT     == Hex(<<0, 1, 2, 3, 4, 5, 6, 7, 8, 9, 10, 11, 12, 13, 14, 15>>)

\* (left, right)
split_block(block) == <<BitAnd(Shr(block, 32), MASK32), BitAnd(block, MASK32)>>

combine_halves(left, right) == BitOr(Shl(left, 32), right)

\* result = ((result >> 8) | (result << 24)) & 0xFFFFFFFF
RotateRight8(result) == BitAnd(BitOr(Shr(result, 8), Shl(result, 24)), MASK32)

\* result = ((result << 3) | (result >> 29)) & 0xFFFFFFFF
RotateLeft3(result) == BitAnd(BitOr(Shl(result, 3), Shr(result, 29)), MASK32)

feistel_function(half_block, round_key) ==
    BitXor(RotateLeft3(RotateRight8(BitXor(half_block, round_key))),
           BitAnd(Shl(round_key, 5), MASK32))

\* the round key appended in iteration i of the loop (i < 64)
round_key_of(master_key, i) ==
    BitAnd(BitXor(BitAnd(BitOr(Shl(master_key, i), Shr(master_key, 64 - i)), MASK64),
                  Mul(i, ROUND_CONSTANT)),
           MASK32)

generate_round_keys(master_key, rounds) ==
    Tup([j \in 1..rounds |-> round_key_of(master_key, j - 1)], rounds)

\* (new_left, new_right)
feistel_round(left, right, round_key) ==
    <<right, BitXor(left, feistel_function(right, round_key))>>

\* the pairs (left, right) of a run of the rounds: halves holds the pair
\* after split_block and the pair after each round so far.
\* "left, right = feistel_round(left, right, round_keys[i])"
round_step(halves, round_key) ==
    Append(halves, feistel_round(halves[Len(halves)][1], halves[Len(halves)][2], round_key))

\* the loop "for i in range(rounds)": iterations lo .. hi - 1 in ascending
\* order: those of the first half of the range, then, from their result,
\* those of the second half
RECURSIVE encrypt_rounds(_, _, _, _)
encrypt_rounds(halves, round_keys, lo, hi) ==
    IF hi <= lo THEN halves
    ELSE IF hi = lo + 1 THEN round_step(halves, round_keys[hi])
    ELSE LET first == encrypt_rounds(halves, round_keys, lo, (lo + hi) \div 2)
         IN  IF first = first
             THEN encrypt_rounds(first, round_keys, (lo + hi) \div 2, hi)
             ELSE first

\* the loop "for i in range(rounds - 1, -1, -1)": iterations hi - 1 .. lo in
\* descending order: those of the upper half of the range, then the lower
RECURSIVE decrypt_rounds(_, _, _, _)
decrypt_rounds(halves, round_keys, lo, hi) ==
    IF hi <= lo THEN halves
    ELSE IF hi = lo + 1 THEN round_step(halves, round_keys[hi])
    ELSE LET first == decrypt_rounds(halves, round_keys, (lo + hi) \div 2, hi)
         IN  IF first = first
             THEN decrypt_rounds(first, round_keys, lo, (lo + hi) \div 2)
             ELSE first

\* encrypt_block / decrypt_block after
\* "round_keys = generate_round_keys(master_key, rounds)"
encrypt_keyed(block, round_keys, rounds) ==
    With(round_keys, encrypt_rounds(<<split_block(block)>>, round_keys, 0, rounds))

decrypt_keyed(block, round_keys, rounds) ==
    With(round_keys, decrypt_rounds(<<split_block(block)>>, round_keys, 0, rounds))

\* every pair (left, right) encrypt_block / decrypt_block computes, in order
encrypt_halves(block, master_key, rounds) ==
    encrypt_keyed(block, generate_round_keys(master_key, rounds), rounds)

decrypt_halves(block, master_key, rounds) ==
    decrypt_keyed(block, generate_round_keys(master_key, rounds), rounds)

\* return combine_halves(right, left), on the last pair
combine_swapped(halves) ==
    combine_halves(halves[Len(halves)][2], halves[Len(halves)][1])

encrypt_block(block, master_key, rounds) ==
    combine_swapped(encrypt_halves(block, master_key, rounds))

\* a decryption that uses the round keys in the order of the encryption
decrypt_block_forward(block, master_key, rounds) ==
    encrypt_block(block, master_key, rounds)

decrypt_block(block, master_key, rounds) ==
    combine_swapped(decrypt_halves(block, master_key, rounds))

\* ------------------------------------------------------------------------
\* lab2: texts
\* ------------------------------------------------------------------------

\* a text is the sequence of its code points (none of them a surrogate);
\* str.encode('utf-8') of one code point
Utf8Char(c) ==
    IF c < 128 THEN <<c>>
    ELSE IF c < 2048 THEN <<192 + (c \div 64), 128 + (c % 64)>>
    ELSE IF c < 65536
    THEN <<224 + (c \div 4096), 128 + ((c \div 64) % 64), 128 + (c % 64)>>
    ELSE <<240 + (c \div 262144), 128 + ((c \div 4096) % 64),
           128 + ((c \div 64) % 64), 128 + (c % 64)>>

Utf8Encode(text) ==
    Flatten(Tup([i \in 1..Len(text) |-> Utf8Char(text[i])], Len(text)), 0, Len(text))

\* the padding step of text_to_blocks, lines 181-184
pad_to_block(bytes_data, block_size) ==
    LET padding_size == block_size - (Len(bytes_data) % block_size)
    IN  IF padding_size < block_size
        THEN bytes_data \o Fill(padding_size, padding_size)
        ELSE bytes_data

\* struct.unpack('>Q', bytes_data[i:i+block_size])[0] for each i; every
\* slice has block_size = 8 bytes after the padding step
blocks_of(bytes_data, block_size) ==
    Tup([k \in 1..(Len(bytes_data) \div block_size) |->
            BytesBE(Slice(bytes_data, block_size * (k - 1), block_size * k))],
        Len(bytes_data) \div block_size)

text_to_blocks(text, block_size) ==
    blocks_of(pad_to_block(Utf8Encode(text), block_size), block_size)

\* bytes_data after the loop of blocks_to_text: struct.pack('>Q', block) of
\* each block, or struct.error for a block of more than 64 bits
pack_blocks(blocks) ==
    IF \E i \in 1..Len(blocks) : BitLength(blocks[i]) > 64 THEN Err(STRUCT_ERROR)
    ELSE Ok(Flatten(Tup([i \in 1..Len(blocks) |-> ToBytesBE(blocks[i], 8)], Len(blocks)),
                    0, Len(blocks)))

\* blocks_to_text from "padding_size = bytes_data[-1]" on
strip_and_decode(bytes_data, block_size) ==
    IF bytes_data = <<>> THEN Err(INDEX_ERROR)
    ELSE LET padding_size == bytes_data[Len(bytes_data)]
         IN  IF padding_size < block_size
             THEN Utf8Decode(SliceButLast(bytes_data, padding_size))
             ELSE Utf8Decode(bytes_data)

\* packed is the result of the loop
text_of_packed(packed, block_size) ==
    IF packed.err # "" THEN packed ELSE strip_and_decode(packed.val, block_size)

blocks_to_text(blocks, block_size) ==
    text_of_packed(pack_blocks(blocks), block_size)

\* encrypt_block(block, key) for each block
encrypt_blocks(blocks, key) ==
    Tup([k \in 1..Len(blocks) |-> encrypt_block(blocks[k], key, DEFAULT_ROUNDS)],
        Len(blocks))

decrypt_blocks(blocks, key) ==
    Tup([k \in 1..Len(blocks) |-> decrypt_block(blocks[k], key, DEFAULT_ROUNDS)],
        Len(blocks))

encrypt_text(text, key) == encrypt_blocks(text_to_blocks(text, DEFAULT_BLOCK_SIZE), key)

decrypt_text(encrypted_blocks, key) ==
    blocks_to_text(decrypt_blocks(encrypted_blocks, key), DEFAULT_BLOCK_SIZE)

\* ------------------------------------------------------------------------
\* State
\* ------------------------------------------------------------------------

VARIABLES
    \* one block through the GOST cipher
    gBlock,     \* the 8-byte block
    gKey,       \* the key, eight 32-bit words
    gEnc,       \* gost_encrypt_block(gBlock, gKey)
    gDec,       \* gost_decrypt_block of that
    gPc,        \* "start", "encrypted", "decrypted"
    \* the files of a GOST session
    keyFile,    \* the key file
    inFile,     \* the plaintext file
    ctFile,     \* the binary ciphertext file, output_path of encrypt_file
    txtFile,    \* the base64 ciphertext file, output_path + ".txt"
    outFile,    \* output_path of decrypt_file
    encrypted,  \* whether encrypt_file wrote ctFile and txtFile
    last,       \* the last run: its operation, its source, the output files
                \* before it, and its Run
    \* one block through the Feistel cipher of lab2
    tBlock,     \* the 64-bit block
    tKey,       \* the 64-bit master key
    tRoundKeys, \* generate_round_keys(tKey), <<>> before the call
    tEnc,       \* encrypt_block(tBlock, tKey)
    tDec,       \* decrypt_block of that
    tHalves,    \* every pair (left, right) the two calls computed
    tPc,        \* "start", "encrypted", "decrypted"
    \* one text through the Feistel cipher of lab2
    xText,      \* the text
    xKey,       \* the 64-bit key
    xBlocks,    \* encrypt_text(xText, xKey)
    xOut,       \* decrypt_text of that
    xPc,        \* "start", "encrypted", "decrypted"
    \* one buffer through the padding functions
    pBuf,       \* the buffer
    pPadded,    \* the buffer after the padding
    pOut,       \* what pkcs7_unpad returned
    pPc         \* "start", "padded", "text_padded", "unpadded", "round_trip"

gostVars == <<gBlock, gKey, gEnc, gDec, gPc>>
fileVars == <<keyFile, inFile, ctFile, txtFile, outFile, encrypted, last>>
toyVars  == <<tBlock, tKey, tRoundKeys, tEnc, tDec, tHalves, tPc>>
textVars == <<xText, xKey, xBlocks, xOut, xPc>>
padVars  == <<pBuf, pPadded, pOut, pPc>>
vars == <<gostVars, fileVars, toyVars, textVars, padVars>>

\* ------------------------------------------------------------------------
\* Inputs
\* ------------------------------------------------------------------------

MaxKeyStep      == 2
MaxBlockStep    == 3
MaxInputWords   == 2
MaxToyKeyStep   == 2
MaxToyBlockStep == 3
MaxTextLen      == 9
MaxPrefixLen    == 8
MaxTailLen      == 9

\* n bytes c, c + k, c + 2k, ... (mod 256)
Steps(n, c, k) == Tup([i \in 1..n |-> (c + (i - 1) * k) % 256], n)

\* 32-byte keys, among them 32 bytes 0x00 and 32 bytes 0xFF
GostKeyData == {Steps(KEY_BYTES, c, k) : c \in {0, 255}, k \in 0..MaxKeyStep}

\* 8-byte blocks, among them the all-zero and the all-one block
GostBlocks == {Steps(BLOCK_SIZE, c, k) : c \in {0, 128, 255}, k \in 0..MaxBlockStep}

\* key files: two keys of 32 bytes, and files of 0, 31 and 33 bytes
KeyFiles ==
    {File(Fill(n, 255)) : n \in {0, 31, 32, 33}} \cup {File(Steps(KEY_BYTES, 0, 1))}

\* plaintext files of 0, 4, 8, ... zero bytes
InputFiles == {File(Fill(4 * n, 0)) : n \in 0..MaxInputWords}

\* what may lie at the ciphertext path before the session: nothing, five
\* bytes, or the block that decrypts to eight zero bytes under the 0xFF key
ZeroBlockCiphertext ==
    gost_encrypt_block(Fill(BLOCK_SIZE, 0), unpack_8I(Fill(KEY_BYTES, 255))).val

StrayFiles == {NoFile, File(<<255, 1, 2, 3, 4>>), File(ZeroBlockCiphertext)}

\* what may lie at the output path before the session
OldFiles == {NoFile, File(<<111, 108, 100>>)}

\* 64-bit master keys, among them 0, 2^64 - 1 and 0x800000008766BB5A
ToyKeys ==
    {BytesBE(Steps(8, c, k)) : c \in {0, 255}, k \in 0..MaxToyKeyStep}
    \cup {Hex(<<8, 0, 0, 0, 0, 0, 0, 0, 8, 7, 6, 6, 11, 11, 5, 10>>)}

\* 64-bit blocks, among them 0 and 2^64 - 1
ToyBlocks == {BytesBE(Steps(8, c, k)) : c \in {0, 128, 255}, k \in 0..MaxToyBlockStep}

\* texts: some letters "a", then nothing or one more character, among them
\* control characters and a letter of two bytes
Texts ==
    {Fill(n, 97) \o t : n \in 0..MaxTextLen,
                        t \in {<<>>, <<0>>, <<1>>, <<7>>, <<8>>, <<1087>>}}

TextKeys == {MASK64, ROUND_CONSTANT}

\* buffers: some bytes "A", then some equal bytes
PadBuffers ==
    {Fill(n, 65) \o Fill(m, b) : n \in 0..MaxPrefixLen, m \in 0..MaxTailLen,
                                 b \in {0, 1, 2, 8, 9, 200}}

\* ------------------------------------------------------------------------
\* The parts of the state a scenario does not use
\* ------------------------------------------------------------------------

GostIdle ==
    /\ gBlock = <<>> /\ gKey = <<>> /\ gEnc = Ok(<<>>) /\ gDec = Ok(<<>>)
    /\ gPc = "idle"

NoRun ==
    [op |-> "none", src |-> "none", before |-> <<NoFile, NoFile, NoFile>>,
     run |-> Run("", Ok(<<>>), <<>>, <<>>, <<>>)]

FileIdle ==
    /\ keyFile = NoFile /\ inFile = NoFile /\ ctFile = NoFile /\ txtFile = NoFile
    /\ outFile = NoFile /\ encrypted = FALSE /\ last = NoRun

ToyIdle ==
    /\ tBlock = <<>> /\ tKey = <<>> /\ tRoundKeys = <<>> /\ tEnc = <<>>
    /\ tDec = <<>> /\ tHalves = <<>> /\ tPc = "idle"

TextIdle ==
    /\ xText = <<>> /\ xKey = <<>> /\ xBlocks = <<>> /\ xOut = Ok(<<>>)
    /\ xPc = "idle"

PadIdle ==
    /\ pBuf = <<>> /\ pPadded = <<>> /\ pOut = Ok(<<>>) /\ pPc = "idle"

\* ------------------------------------------------------------------------
\* One block through the GOST cipher
\* ------------------------------------------------------------------------

GostBlockInit ==
    /\ gBlock \in GostBlocks
    /\ gKey \in {unpack_8I(k) : k \in GostKeyData}
    /\ gEnc = Ok(<<>>) /\ gDec = Ok(<<>>)
    /\ gPc = "start"
    /\ FileIdle /\ ToyIdle /\ TextIdle /\ PadIdle

EncryptBlock ==
    /\ gPc = "start"
    /\ gEnc' = gost_encrypt_block(gBlock, gKey)
    /\ gPc' = "encrypted"
    /\ UNCHANGED <<gBlock, gKey, gDec, fileVars, toyVars, textVars, padVars>>

DecryptBlock ==
    /\ gPc = "encrypted"
    /\ gEnc.err = ""
    /\ gDec' = gost_decrypt_block(gEnc.val, gKey)
    /\ gPc' = "decrypted"
    /\ UNCHANGED <<gBlock, gKey, gEnc, fileVars, toyVars, textVars, padVars>>

GostBlockNext == EncryptBlock \/ DecryptBlock

SpecGostBlock == GostBlockInit /\ [][GostBlockNext]_vars

\* ------------------------------------------------------------------------
\* A GOST session over files
\* ------------------------------------------------------------------------

FileInit ==
    /\ keyFile \in KeyFiles
    /\ inFile \in InputFiles
    /\ ctFile \in StrayFiles
    /\ txtFile = NoFile
    /\ outFile \in OldFiles
    /\ encrypted = FALSE
    /\ last = NoRun
    /\ GostIdle /\ ToyIdle /\ TextIdle /\ PadIdle

\* encrypt_file(input_path, output_path, key_path): both ciphertext files
\* are written after the encryption, or none
Encrypted(r) ==
    /\ ctFile' = IF r.err = "" THEN File(r.written) ELSE ctFile
    /\ txtFile' = IF r.err = "" THEN File(b64encode(r.written)) ELSE txtFile
    /\ encrypted' = (encrypted \/ r.err = "")
    /\ last' = [op |-> "encrypt_file", src |-> "in",
                before |-> <<ctFile, txtFile, outFile>>, run |-> r]
    /\ UNCHANGED <<keyFile, inFile, outFile, gostVars, toyVars, textVars, padVars>>

EncryptFile == Encrypted(encrypt_file(inFile, keyFile))

\* decrypt_file(input_path, output_path, key_path) on the binary or on the
\* base64 ciphertext file
Decrypted(src, r) ==
    /\ outFile' = IF r.err = "" THEN File(r.written) ELSE outFile
    /\ last' = [op |-> "decrypt_file", src |-> src,
                before |-> <<ctFile, txtFile, outFile>>, run |-> r]
    /\ UNCHANGED <<keyFile, inFile, ctFile, txtFile, encrypted,
                   gostVars, toyVars, textVars, padVars>>

DecryptBinary == Decrypted("ct", decrypt_file(ctFile, keyFile))

DecryptText == Decrypted("txt", decrypt_file(txtFile, keyFile))

FileNext == EncryptFile \/ DecryptBinary \/ DecryptText

SpecFile == FileInit /\ [][FileNext]_vars

\* ------------------------------------------------------------------------
\* One block through the Feistel cipher of lab2
\* ------------------------------------------------------------------------

ToyBlockInit ==
    /\ tBlock \in ToyBlocks
    /\ tKey \in ToyKeys
    /\ tRoundKeys = <<>> /\ tEnc = <<>> /\ tDec = <<>> /\ tHalves = <<>>
    /\ tPc = "start"
    /\ GostIdle /\ FileIdle /\ TextIdle /\ PadIdle

GenerateRoundKeys ==
    /\ tRoundKeys = <<>>
    /\ tRoundKeys' = generate_round_keys(tKey, DEFAULT_ROUNDS)
    /\ UNCHANGED <<tBlock, tKey, tEnc, tDec, tHalves, tPc,
                   gostVars, fileVars, textVars, padVars>>

ToyEncryptBlock ==
    /\ tPc = "start"
    /\ tEnc' = encrypt_block(tBlock, tKey, DEFAULT_ROUNDS)
    /\ tHalves' = encrypt_halves(tBlock, tKey, DEFAULT_ROUNDS)
    /\ tPc' = "encrypted"
    /\ UNCHANGED <<tBlock, tKey, tRoundKeys, tDec,
                   gostVars, fileVars, textVars, padVars>>

ToyDecryptBlock ==
    /\ tPc = "encrypted"
    /\ tDec' = decrypt_block(tEnc, tKey, DEFAULT_ROUNDS)
    /\ tHalves' = tHalves \o decrypt_halves(tEnc, tKey, DEFAULT_ROUNDS)
    /\ tPc' = "decrypted"
    /\ UNCHANGED <<tBlock, tKey, tRoundKeys, tEnc,
                   gostVars, fileVars, textVars, padVars>>

ToyBlockNext == GenerateRoundKeys \/ ToyEncryptBlock \/ ToyDecryptBlock

SpecToyBlock == ToyBlockInit /\ [][ToyBlockNext]_vars

\* ------------------------------------------------------------------------
\* One text through the Feistel cipher of lab2
\* ------------------------------------------------------------------------

ToyTextInit ==
    /\ xText \in Texts
    /\ xKey \in TextKeys
    /\ xBlocks = <<>> /\ xOut = Ok(<<>>)
    /\ xPc = "start"
    /\ GostIdle /\ FileIdle /\ ToyIdle /\ PadIdle

EncryptText ==
    /\ xPc = "start"
    /\ xBlocks' = encrypt_text(xText, xKey)
    /\ xPc' = "encrypted"
    /\ UNCHANGED <<xText, xKey, xOut, gostVars, fileVars, toyVars, padVars>>

DecryptBlocks ==
    /\ xPc = "encrypted"
    /\ xOut' = decrypt_text(xBlocks, xKey)
    /\ xPc' = "decrypted"
    /\ UNCHANGED <<xText, xKey, xBlocks, gostVars, fileVars, toyVars, padVars>>

ToyTextNext == EncryptText \/ DecryptBlocks

SpecToyText == ToyTextInit /\ [][ToyTextNext]_vars

\* ------------------------------------------------------------------------
\* One buffer through the padding functions
\* ------------------------------------------------------------------------

PadInit ==
    /\ pBuf \in PadBuffers
    /\ pPadded = <<>> /\ pOut = Ok(<<>>)
    /\ pPc = "start"
    /\ GostIdle /\ FileIdle /\ ToyIdle /\ TextIdle

\* pkcs7_pad(pBuf)
Pad ==
    /\ pPc = "start"
    /\ pPadded' = pkcs7_pad(pBuf)
    /\ pPc' = "padded"
    /\ UNCHANGED <<pBuf, pOut, gostVars, fileVars, toyVars, textVars>>

\* pkcs7_unpad of what pkcs7_pad returned
UnpadPadded ==
    /\ pPc = "padded"
    /\ pOut' = pkcs7_unpad(pPadded)
    /\ pPc' = "round_trip"
    /\ UNCHANGED <<pBuf, pPadded, gostVars, fileVars, toyVars, textVars>>

\* pkcs7_unpad(pBuf)
Unpad ==
    /\ pPc = "start"
    /\ pOut' = pkcs7_unpad(pBuf)
    /\ pPc' = "unpadded"
    /\ UNCHANGED <<pBuf, pPadded, gostVars, fileVars, toyVars, textVars>>

\* the padding step of text_to_blocks, pBuf being the encoding of a text
PadText ==
    /\ pPc = "start"
    /\ Utf8Decode(pBuf).err = ""
    /\ pPadded' = pad_to_block(pBuf, DEFAULT_BLOCK_SIZE)
    /\ pPc' = "text_padded"
    /\ UNCHANGED <<pBuf, pOut, gostVars, fileVars, toyVars, textVars>>

PadNext == Pad \/ UnpadPadded \/ Unpad \/ PadText

SpecPad == PadInit /\ [][PadNext]_vars

\* ------------------------------------------------------------------------
\* Properties
\* ------------------------------------------------------------------------

\* C1: for every 8-byte block and every key of eight 32-bit words,
\* gost_decrypt_block of gost_encrypt_block of the block, under the same key,
\* is the block (under SpecGostBlock)
C1_GostBlockRoundTrip ==
    gPc = "decrypted" => gDec = Ok(gBlock)

\* the all-one block went through both calls under a key of unequal words
C1_Witness ==
    /\ gPc = "decrypted"
    /\ gBlock = Fill(BLOCK_SIZE, 255)
    /\ gKey[1] # gKey[2]
    /\ gEnc.err = "" /\ gEnc.val # gBlock
    /\ gDec = Ok(gBlock)

\* C2: for every 64-bit block and 64-bit master key, decrypt_block of
\* encrypt_block of the block is the block, every half the rounds compute
\* has at most 32 bits and both results have at most 64 bits (under
\* SpecToyBlock)
C2_ToyBlockRoundTrip ==
    /\ tPc = "decrypted" => tDec = tBlock
    /\ \A i \in 1..Len(tHalves) :
           BitLength(tHalves[i][1]) <= 32 /\ BitLength(tHalves[i][2]) <= 32
    /\ BitLength(tEnc) <= 64
    /\ BitLength(tDec) <= 64

\* the block 2^64 - 1 went through both calls, 17 pairs of halves each
C2_Witness ==
    /\ tPc = "decrypted"
    /\ tBlock = MASK64
    /\ tEnc # tBlock
    /\ Len(tHalves) = 2 * (DEFAULT_ROUNDS + 1)
    /\ tDec = tBlock

\* C3: decrypt_file on the binary ciphertext file that encrypt_file wrote,
\* under the same valid key, writes exactly the input buffer to the output
\* (under SpecFile)
C3_FileRoundTrip ==
    (encrypted /\ last.op = "decrypt_file" /\ last.src = "ct")
        => outFile = File(inFile.data)

\* C4: for every text and 64-bit key, decrypt_text of encrypt_text of the
\* text returns the text (under SpecToyText)
C4_TextRoundTrip ==
    xPc = "decrypted" => xOut = Ok(xText)

\* C5: pkcs7_unpad(pkcs7_pad(x)) = x for every buffer x (under
\* SpecPad)
C5_UnpadOfPad ==
    pPc = "round_trip" => pOut = Ok(pBuf)

\* a buffer of exactly 8 bytes went through pkcs7_pad and pkcs7_unpad
C5_Witness ==
    /\ pPc = "round_trip"
    /\ Len(pBuf) = BLOCK_SIZE
    /\ Len(pPadded) = 2 * BLOCK_SIZE
    /\ pOut = Ok(pBuf)

\* C6: on both paths, pkcs7_pad and the padding step of text_to_blocks, a
\* buffer of n bytes gains exactly p = 8 - (n mod 8) bytes of value p, with
\* 1 <= p <= 8, so that the padded length is a multiple of 8 greater than n
\* (under SpecPad)
C6_PadAlwaysAppends ==
    pPc \in {"padded", "text_padded"} =>
        LET n == Len(pBuf)
            p == 8 - (n % 8)
        IN  /\ 1 <= p /\ p <= 8
            /\ pPadded = pBuf \o [i \in 1..p |-> p]
            /\ Len(pPadded) % 8 = 0
            /\ Len(pPadded) > n

\* C7: pkcs7_unpad of a non-empty buffer with last byte p fails with the
\* padding error when p = 0, p > 8, p > len(buffer) or one of the last p
\* bytes is not p, and returns the buffer without its last p bytes in every
\* other case (under SpecPad)
C7_UnpadRejectsMalformed ==
    (pPc = "unpadded" /\ pBuf # <<>>) =>
        LET n == Len(pBuf)
            p == pBuf[n]
            malformed ==
                \/ p = 0
                \/ p > 8
                \/ p > n
                \/ \E i \in (n - p + 1)..n : pBuf[i] # p
        IN  IF malformed
            THEN pOut = Err(PADDING_ERROR)
            ELSE pOut = Ok(SubSeq(pBuf, 1, n - p))

\* C8: a run of decrypt_file that ends in an error leaves the output file as
\* it was; a ciphertext whose length is not a multiple of 8, a plaintext
\* whose trailing padding is invalid and a key file not of 32 bytes each end
\* the run in an error; a run that succeeds writes the plaintext without its
\* padding (under SpecFile)
C8_DecryptAllOrNothing ==
    last.op = "decrypt_file" =>
        LET r == last.run
            n == Len(r.computed)
            p == IF n = 0 THEN 0 ELSE r.computed[n]
            valid ==
                /\ 1 <= p /\ p <= 8 /\ p <= n
                /\ \A i \in (n - p + 1)..n : r.computed[i] = p
        IN  /\ r.err # "" => outFile = last.before[3]
            /\ Len(r.data) % 8 # 0 => r.err # ""
            /\ Len(keyFile.data) # 32 => r.err # ""
            /\ (n > 0 /\ ~valid) => r.err # ""
            /\ r.err = "" => outFile = File(SubSeq(r.computed, 1, n - p))

\* C9: load_key returns a key if and only if the key file has exactly 32
\* bytes, and the invalid-key-length error and no key otherwise; the key is
\* the 8 unsigned 32-bit words of the file, little endian, in the order of
\* its bytes; a run of encrypt_file or decrypt_file whose key was rejected
\* leaves the ciphertext files and the output file as they were (under
\* SpecFile)
C9_LoadKey ==
    last.op # "none" =>
        LET k == last.run.key
        IN  /\ k.err = "" <=> Len(keyFile.data) = 32
            /\ k.err # "" =>
                   /\ k = Err(KEY_ERROR)
                   /\ last.run.err = KEY_ERROR
                   /\ <<ctFile, txtFile, outFile>> = last.before
            /\ k.err = "" =>
                   /\ Len(k.val) = 8
                   /\ \A i \in 1..8 :
                          /\ BitLength(k.val[i]) <= 32
                          /\ \A j \in 1..4 :
                                 keyFile.data[4 * (i - 1) + j]
                                     = DigAt(k.val[i], 2 * j - 1)
                                       + 16 * DigAt(k.val[i], 2 * j)

\* decrypt_file ran with a key file of 33 bytes over an existing output
C9_Witness ==
    /\ last.op = "decrypt_file"
    /\ Len(keyFile.data) = 33
    /\ last.run.key = Err(KEY_ERROR)
    /\ outFile.exists

\* C10: generate_round_keys(K) returns 16 round keys, each of at most 32
\* bits, the key of round i being the low 32 bits of
\* rotl64(K, i) xor i * 0x0123456789ABCDEF, and the 16 keys are pairwise
\* distinct (under SpecToyBlock)
C10_RoundKeys ==
    tRoundKeys # <<>> =>
        LET Bit(a, j) == (DigAt(a, (j \div 4) + 1) \div (2 ^ (j % 4))) % 2
        IN  /\ Len(tRoundKeys) = 16
            /\ \A i \in 0..15 :
                   /\ BitLength(tRoundKeys[i + 1]) <= 32
                   /\ \A j \in 0..31 :
                          Bit(tRoundKeys[i + 1], j)
                              = (Bit(tKey, (j - i) % 64)
                                 + Bit(Mul(i, ROUND_CONSTANT), j)) % 2
            /\ \A i \in 1..16 : \A j \in 1..16 :
                   i # j => tRoundKeys[i] # tRoundKeys[j]

====
